---------------------------- MODULE Spec2Model ----------------------------
(***************************************************************************)
(* Model of src/src/data.rs: construction of a block's data matrix        *)
(* (construct_matrix), its publication as a content-addressed DAG          *)
(* (push_matrix) and the reconstruction of a column (reconstruct_column).  *)
(***************************************************************************)
EXTENDS Integers, Sequences, FiniteSets

(***************************************************************************)
(* Bounds of the model.                                                    *)
(***************************************************************************)
\* largest row_count / col_count handed to construct_matrix
MaxRows == 2
MaxCols == 2
\* largest number of cells of a matrix
MaxCells == 4
\* number of distinct payloads the retrieval collaborator can return
NumPayloads == 2
\* number of distinct payloads in the 2x2 publish-shape specification
NumShapePayloads == 4
\* u64 block numbers are scaled to BlockBits bits (i128 to twice as many)
BlockBits == 3
\* largest number of cells of a matrix that is published twice
MaxCellsTwice == 2
\* largest row_count handed to reconstruct_column
MaxReconRows == 10
\* largest number of cells handed to reconstruct_column
MaxReconCells == 2
\* largest row index a cell handed to reconstruct_column carries
MaxCellRow == 2

Payloads == 0 .. (NumPayloads - 1)
ShapePayloads == 0 .. (NumShapePayloads - 1)
Blocks == {0, 2^BlockBits - 1}

VARIABLES
    pc,            \* position of the running operation
    block,         \* construct_matrix's block
    row_count,     \* construct_matrix's row_count
    col_count,     \* construct_matrix's col_count
    net,           \* the retrieval collaborator: (block, row, col) -> payload
    row,           \* construct_colwise's loop variable
    col,           \* construct_rowwise's loop variable
    fetchLog,      \* the retrieval calls issued so far, in order
    base_cells,    \* construct_colwise's base_cells
    l0_cols,       \* construct_rowwise's l0_cols
    matrix,        \* the DataMatrix construct_matrix returned
    latest_cid,    \* push_matrix's latest_cid
    store,         \* the blocks ipfs holds
    pins,          \* the identifiers pinned in the TempPin
    push_col_idx,  \* position of push_row's loop over row.l0_cols
    push_cell_idx, \* position of push_col's loop over col.base_cells
    cell_cids,     \* push_col's cell_cids
    col_cids,      \* push_row's col_cids
    coded_cols,    \* the column blocks push_col encoded in this call
    coded_matrix,  \* the root block push_row encoded in this call
    opLog,         \* the pin and insert attempts of this call, in order
    result,        \* what push_matrix returned
    first,         \* summary of the previous push_matrix call of this matrix
    rc_row_count,  \* reconstruct_column's row_count
    rc_cells,      \* reconstruct_column's cells
    rc_column,     \* the column the cells were taken from, when it is known
    rc_subset,     \* reconstruct_column's subset
    rc_i,          \* reconstruct_column's loop variable i
    poly_calls,    \* the sequences handed to reconstruct_poly so far
    rc_outcome     \* how reconstruct_column ended

constructVars == <<block, row_count, col_count, net, row, col, fetchLog,
                   base_cells, l0_cols, matrix>>
pushVars == <<latest_cid, store, pins, push_col_idx, push_cell_idx, cell_cids,
              col_cids, coded_cols, coded_matrix, opLog, result, first>>
reconVars == <<rc_row_count, rc_cells, rc_column, rc_subset, rc_i, poly_calls,
               rc_outcome>>
vars == <<pc, constructVars, pushVars, reconVars>>

(***************************************************************************)
(* Ipld values, blocks and content identifiers.                            *)
(***************************************************************************)
IpldBytes(b) == [t |-> "Bytes", v |-> b]
IpldLink(cid) == [t |-> "Link", v |-> cid]
IpldList(s) == [t |-> "List", v |-> s]
IpldInteger(n) == [t |-> "Integer", v |-> n]
IpldNull == [t |-> "Null"]
IpldStringMap(m) == [t |-> "StringMap", v |-> m]

\* The identifier of a block is the hash of its codec and encoded bytes; the
\* hash is collision free, so the digest stands for the content it hashes.
CidOfSalted(data) ==
    [codec |-> "DagCbor", hash |-> "Blake3_256",
     digest |-> <<data, Cardinality(store)>>]
CidOf(data) == [codec |-> "DagCbor", hash |-> "Blake3_256", digest |-> data]

\* IpldBlock::encode(IpldCodec::DagCbor, Code::Blake3_256, &data)
Encode(data) == [cid |-> CidOf(data), data |-> data]

None == [t |-> "None"]
Some(x) == [t |-> "Some", v |-> x]
Ok(x) == [t |-> "Ok", v |-> x]
Err == [t |-> "Err"]
Pending == [t |-> "Pending"]

\* `block as i128`: a BlockBits-bit unsigned value read as a signed value of
\* twice the width (two's complement)
WideBits == 2 * BlockBits
AsI128Narrow(b) == IF b < 2^(BlockBits - 1) THEN b ELSE b - 2^BlockBits
AsI128(b) == IF b < 2^(WideBits - 1) THEN b ELSE b - 2^WideBits

\* the root of an earlier block, a possible previous root
PrevRoot ==
    CidOf(IpldStringMap([columns |-> IpldList(<<>>),
                         block |-> IpldInteger(0),
                         prev |-> IpldNull]))
LatestCids == {None, Some(PrevRoot)}

(***************************************************************************)
(* construct_matrix                                                        *)
(***************************************************************************)
Coords(b, rc, cc) == {b} \X (0 .. (rc - 1)) \X (0 .. (cc - 1))

\* the arguments of get_kate_query_proof_by_cell in construct_cell
FetchCallSwapped(b, r, c) == <<b, c, r>>
FetchCall(b, r, c) == <<b, r, c>>

\* the retrieval collaborator answers every coordinate; outside the matrix of
\* the block under construction its payload is 0
get_kate_query_proof_by_cell(b, r, c) ==
    IF <<b, r, c>> \in DOMAIN net THEN net[<<b, r, c>>] ELSE 0

Fetch(call) == get_kate_query_proof_by_cell(call[1], call[2], call[3])

\* construct_cell: the leaf block of the payload fetched for (block, row, col)
construct_cell_mirrored(b, r, c) ==
    Encode(IpldBytes(Fetch(FetchCall(b, (row_count - 1) - r, c))))
construct_cell_row0(b, r, c) == Encode(IpldBytes(Fetch(FetchCall(b, 0, c))))
construct_cell(b, r, c) == Encode(IpldBytes(Fetch(FetchCall(b, r, c))))

InitPush ==
    /\ store = {}
    /\ pins = {}
    /\ push_col_idx = 0
    /\ push_cell_idx = 0
    /\ cell_cids = <<>>
    /\ col_cids = <<>>
    /\ coded_cols = <<>>
    /\ coded_matrix = None
    /\ opLog = <<>>
    /\ result = Pending
    /\ first = None

\* no reconstruct_column call is under way
InitReconIdle ==
    /\ rc_row_count = 0
    /\ rc_cells = <<>>
    /\ rc_column = <<>>
    /\ rc_subset = <<>>
    /\ rc_i = 0
    /\ poly_calls = <<>>
    /\ rc_outcome = Pending

InitWith(bs, rcs, ccs, ps, lcs) ==
    /\ InitPush
    /\ InitReconIdle
    /\ pc = "construct"
    /\ block \in bs
    /\ row_count \in rcs
    /\ col_count \in ccs
    /\ net \in [Coords(block, row_count, col_count) -> ps]
    /\ row = 0
    /\ col = 0
    /\ fetchLog = <<>>
    /\ base_cells = <<>>
    /\ l0_cols = <<>>
    /\ matrix = None
    /\ latest_cid \in lcs

Init ==
    /\ InitWith(Blocks, 0 .. MaxRows, 0 .. MaxCols, Payloads, LatestCids)
    /\ row_count * col_count <= MaxCells

\* one iteration of construct_colwise's loop: fetch and encode one cell
ConstructCell ==
    /\ pc = "construct"
    /\ col < col_count
    /\ row < row_count
    /\ fetchLog' = Append(fetchLog, FetchCall(block, row, col))
    /\ base_cells' = Append(base_cells, construct_cell(block, row, col))
    /\ row' = row + 1
    /\ UNCHANGED <<pc, block, row_count, col_count, net, col, l0_cols, matrix,
                   pushVars, reconVars>>

\* construct_colwise returns its L0Col; construct_rowwise pushes it
ConstructColwiseReturn ==
    /\ pc = "construct"
    /\ col < col_count
    /\ row = row_count
    /\ l0_cols' = Append(l0_cols, [base_cells |-> base_cells])
    /\ base_cells' = <<>>
    /\ row' = 0
    /\ col' = col + 1
    /\ UNCHANGED <<pc, block, row_count, col_count, net, fetchLog, matrix,
                   pushVars, reconVars>>

(***************************************************************************)
(* push_matrix                                                             *)
(***************************************************************************)
\* where push_col starts for a column of n cells
EnterCol(n) == IF n > 0 THEN "cell_pin" ELSE "col_pin"

\* where push_row's loop stands at column index ci of the columns l0
EnterRowLoop(ci, l0) ==
    IF ci < Len(l0) THEN EnterCol(Len(l0[ci + 1].base_cells)) ELSE "row_pin"

\* construct_matrix returns the DataMatrix; push_matrix is called with it
ConstructMatrixReturn ==
    /\ pc = "construct"
    /\ col = col_count
    /\ matrix' = [l1_row |-> [l0_cols |-> l0_cols], block_num |-> AsI128(block)]
    /\ pc' = EnterRowLoop(0, l0_cols)
    /\ UNCHANGED <<block, row_count, col_count, net, row, col, fetchLog,
                   base_cells, l0_cols, pushVars, reconVars>>

\* ipfs.temp_pin(pin, cid) and ipfs.insert(&block) when they succeed: the
\* identifier joins the pin scope, the block joins the store
TempPinForgets(ps, cid) == ps
TempPin(ps, cid) == ps \cup {cid}
IpfsInsertEvicting(s, blk) == {blk}
IpfsInsert(s, blk) == s \cup {blk}

\* the column and the cell the loops stand at
CurCol == matrix.l1_row.l0_cols[push_col_idx + 1]
CurCell == CurCol.base_cells[push_cell_idx + 1]

LogEntry(op, target, cid, ok) ==
    [op |-> op, target |-> target, cid |-> cid, ok |-> ok]
LeafTarget == <<"leaf", push_col_idx, push_cell_idx>>
ColTarget == <<"col", push_col_idx>>
RootTarget == <<"root">>

\* push_col's `if let Ok(cid) = push_cell(..) { cell_cids.push(Ipld::Link(cid)) }`
CellLinksPlaceholder(cids, res) ==
    IF res.t = "Ok" THEN Append(cids, IpldLink(res.v)) ELSE Append(cids, IpldNull)
CellLinksUnchecked(cids, res) == Append(cids, IpldLink(CurCell.cid))
CellLinks(cids, res) ==
    IF res.t = "Ok" THEN Append(cids, IpldLink(res.v)) ELSE cids

\* push_row's `if let Ok(cid) = push_col(..) { col_cids.push(Ipld::Link(cid)) }`
ColLinksPlaceholder(cids, res) ==
    IF res.t = "Ok" THEN Append(cids, IpldLink(res.v)) ELSE Append(cids, IpldNull)
ColLinks(cids, res) ==
    IF res.t = "Ok" THEN Append(cids, IpldLink(res.v)) ELSE cids

\* push_col's loop after push_cell returned res for cell index ri of n
AfterCellAbort(res, ri, n) ==
    IF res.t = "Ok" /\ ri + 1 < n THEN "cell_pin" ELSE "col_pin"
AfterCellSkipsLast(res, ri, n) == IF ri + 2 < n THEN "cell_pin" ELSE "col_pin"
AfterCell(res, ri, n) == IF ri + 1 < n THEN "cell_pin" ELSE "col_pin"

\* push_cell returned res: push_col records the link and moves on
CellReturns(res) ==
    /\ cell_cids' = CellLinks(cell_cids, res)
    /\ pc' = AfterCell(res, push_cell_idx, Len(CurCol.base_cells))
    /\ push_cell_idx' = push_cell_idx + 1

\* push_cell: ipfs.temp_pin(pin, cell.cid())?
PushCellPin ==
    /\ pc = "cell_pin"
    /\ \E ok \in BOOLEAN :
        /\ opLog' = Append(opLog, LogEntry("pin", LeafTarget, CurCell.cid, ok))
        /\ IF ok
             THEN /\ pins' = TempPin(pins, CurCell.cid)
                  /\ pc' = "cell_insert"
                  /\ UNCHANGED <<cell_cids, push_cell_idx>>
             ELSE /\ CellReturns(Err)
                  /\ UNCHANGED pins
    /\ UNCHANGED <<constructVars, latest_cid, store, push_col_idx, col_cids,
                   coded_cols, coded_matrix, result, first,
                   reconVars>>

\* push_cell: ipfs.insert(&cell)?; Ok(*cell.cid())
PushCellInsert ==
    /\ pc = "cell_insert"
    /\ \E ok \in BOOLEAN :
        /\ opLog' = Append(opLog, LogEntry("insert", LeafTarget, CurCell.cid, ok))
        /\ IF ok
             THEN /\ store' = IpfsInsert(store, CurCell)
                  /\ CellReturns(Ok(CurCell.cid))
             ELSE /\ CellReturns(Err)
                  /\ UNCHANGED store
    /\ UNCHANGED <<constructVars, latest_cid, pins, push_col_idx, col_cids,
                   coded_cols, coded_matrix, result, first,
                   reconVars>>

\* push_col: the column block encoded from cell_cids
CodedCol == Encode(IpldList(cell_cids))

\* push_col returned res: push_row records the link and takes the next column
ColReturns(res) ==
    /\ col_cids' = ColLinks(col_cids, res)
    /\ push_col_idx' = push_col_idx + 1
    /\ push_cell_idx' = 0
    /\ cell_cids' = <<>>
    /\ pc' = EnterRowLoop(push_col_idx + 1, matrix.l1_row.l0_cols)

\* push_col: encode the column; ipfs.temp_pin(pin, coded_col.cid())?
PushColPin ==
    /\ pc = "col_pin"
    /\ coded_cols' = Append(coded_cols, CodedCol)
    /\ \E ok \in BOOLEAN :
        /\ opLog' = Append(opLog, LogEntry("pin", ColTarget, CodedCol.cid, ok))
        /\ IF ok
             THEN /\ pins' = TempPin(pins, CodedCol.cid)
                  /\ pc' = "col_insert"
                  /\ UNCHANGED <<col_cids, push_col_idx, push_cell_idx, cell_cids>>
             ELSE /\ ColReturns(Err)
                  /\ UNCHANGED pins
    /\ UNCHANGED <<constructVars, latest_cid, store, coded_matrix, result, first,
                   reconVars>>

\* push_col: ipfs.insert(&coded_col)?; Ok(*coded_col.cid())
PushColInsert ==
    /\ pc = "col_insert"
    /\ \E ok \in BOOLEAN :
        /\ opLog' = Append(opLog, LogEntry("insert", ColTarget, CodedCol.cid, ok))
        /\ IF ok
             THEN /\ store' = IpfsInsert(store, CodedCol)
                  /\ ColReturns(Ok(CodedCol.cid))
             ELSE /\ ColReturns(Err)
                  /\ UNCHANGED store
    /\ UNCHANGED <<constructVars, latest_cid, pins, coded_cols, coded_matrix,
                   result, first,
                   reconVars>>

\* push_row: the map of the root block
RootMap(cids, block_num, latest) ==
    [columns |-> IpldList(cids),
     block |-> IpldInteger(block_num),
     prev |-> IF latest.t = "Some" THEN IpldLink(latest.v) ELSE IpldNull]

CodedMatrix ==
    Encode(IpldStringMap(RootMap(col_cids, matrix.block_num, latest_cid)))

\* what push_row, and so push_matrix, returns given the outcome of the root's
\* temp_pin and insert (the insert is not attempted after a failed pin)
RootResultIgnoresInsert(pinOk, insOk, cid) == IF pinOk THEN Ok(cid) ELSE Err
RootResult(pinOk, insOk, cid) == IF pinOk /\ insOk THEN Ok(cid) ELSE Err

\* push_row: encode the root; ipfs.temp_pin(pin, coded_matrix.cid())?
PushRowPin ==
    /\ pc = "row_pin"
    /\ coded_matrix' = Some(CodedMatrix)
    /\ \E ok \in BOOLEAN :
        /\ opLog' = Append(opLog, LogEntry("pin", RootTarget, CodedMatrix.cid, ok))
        /\ IF ok
             THEN /\ pins' = TempPin(pins, CodedMatrix.cid)
                  /\ pc' = "row_insert"
                  /\ UNCHANGED result
             ELSE /\ result' = RootResult(FALSE, FALSE, CodedMatrix.cid)
                  /\ pc' = "done"
                  /\ UNCHANGED pins
    /\ UNCHANGED <<constructVars, latest_cid, store, push_col_idx, push_cell_idx,
                   cell_cids, col_cids, coded_cols, first,
                   reconVars>>

\* push_row: ipfs.insert(&coded_matrix)?; Ok(*coded_matrix.cid()); push_matrix
\* passes the result on
PushRowInsert ==
    /\ pc = "row_insert"
    /\ \E ok \in BOOLEAN :
        /\ opLog' = Append(opLog, LogEntry("insert", RootTarget, CodedMatrix.cid, ok))
        /\ result' = RootResult(TRUE, ok, CodedMatrix.cid)
        /\ IF ok THEN store' = IpfsInsert(store, CodedMatrix) ELSE UNCHANGED store
    /\ pc' = "done"
    /\ UNCHANGED <<constructVars, latest_cid, pins, push_col_idx, push_cell_idx,
                   cell_cids, col_cids, coded_cols, coded_matrix, first,
                   reconVars>>

Next ==
    \/ ConstructCell
    \/ ConstructColwiseReturn
    \/ ConstructMatrixReturn
    \/ PushCellPin
    \/ PushCellInsert
    \/ PushColPin
    \/ PushColInsert
    \/ PushRowPin
    \/ PushRowInsert

Spec == Init /\ [][Next]_vars

\* push_matrix is called again with the same matrix and the same latest_cid,
\* on the store and the pin scope the first call left
Republish ==
    /\ pc = "done"
    /\ first = None
    /\ first' = Some([opLog |-> opLog, coded_cols |-> coded_cols,
                      coded_matrix |-> coded_matrix, result |-> result])
    /\ push_col_idx' = 0
    /\ push_cell_idx' = 0
    /\ cell_cids' = <<>>
    /\ col_cids' = <<>>
    /\ coded_cols' = <<>>
    /\ coded_matrix' = None
    /\ opLog' = <<>>
    /\ result' = Pending
    /\ pc' = EnterRowLoop(0, matrix.l1_row.l0_cols)
    /\ UNCHANGED <<constructVars, latest_cid, store, pins,
                   reconVars>>

InitTwice ==
    /\ InitWith({0}, 0 .. MaxRows, 0 .. MaxCols, Payloads, LatestCids)
    /\ row_count * col_count <= MaxCellsTwice

NextTwice == Next \/ Republish

SpecTwice == InitTwice /\ [][NextTwice]_vars

\* a 2x2 matrix of block 0 published, with no previous root, into an empty
\* store
InitShape == InitWith({0}, {2}, {2}, ShapePayloads, {None})

SpecShape == InitShape /\ [][Next]_vars

(***************************************************************************)
(* reconstruct_column                                                      *)
(***************************************************************************)
\* The scalar field, scaled to the prime 2^4 + 1; 3 generates its
\* multiplicative group, of order 2^4.
FieldModulus == 2^4 + 1
FieldGenerator == 3
\* usize::MAX and the range of u16, the former scaled to 16 bits
UsizeMax == 2^16 - 1
U16Range == 2^16

\* a proof is a byte vector: its length, and the integer its bytes encode
WellFormedProof == [len |-> 32, val |-> 1]
OtherWellFormedProof == [len |-> 32, val |-> 2]
NonCanonicalProof == [len |-> 32, val |-> FieldModulus]
ShortProof == [len |-> 31, val |-> 1]
Proofs == {WellFormedProof, OtherWellFormedProof, NonCanonicalProof, ShortProof}
CellCols == {0, 1}
Cells == [row : 0 .. MaxCellRow, col : CellCols, proof : Proofs]

SeqsUpTo(S, n) == UNION {[1 .. k -> S] : k \in 0 .. n}

RECURSIVE BitAnd(_, _)
BitAnd(a, b) ==
    IF a = 0 \/ b = 0 THEN 0
    ELSE (a % 2) * (b % 2) + 2 * BitAnd(a \div 2, b \div 2)

\* `row_count - 1` on usize where the subtraction wraps (overflow checks off)
WrappingDec(n) == IF n = 0 THEN UsizeMax ELSE n - 1

\* assert!(row_count & (row_count - 1) == 0)
IsPowerOfTwoAssertDropped(n) == n >= 0
IsPowerOfTwoAssert(n) == BitAnd(n, WrappingDec(n)) = 0

\* assert!(cells.len() >= row_count / 2 && cells.len() <= row_count)
LenInRangeNoUpper(len, n) == len >= n \div 2
LenInRange(len, n) == len >= n \div 2 /\ len <= n

\* check_cells: the list is non-empty and every cell is of the first's column
check_cells_any_column(cells) == Len(cells) > 0
check_cells(cells) ==
    /\ Len(cells) > 0
    /\ \A k \in DOMAIN cells : cells[k].col = cells[1].col

Panic == [t |-> "Panic"]

ParseScalarLowBits(proof) ==
    IF proof.len # 32 THEN Panic
    ELSE IF proof.val >= FieldModulus THEN Panic
    ELSE Some(proof.val % 2^3)

ParseScalarLenient(proof) ==
    IF proof.len # 32 \/ proof.val >= FieldModulus THEN None
    ELSE Some(proof.val)

\* BlsScalar::from_bytes(&cell.proof[..].try_into().expect(..)).unwrap()
ParseScalar(proof) ==
    IF proof.len # 32 THEN Panic
    ELSE IF proof.val >= FieldModulus THEN Panic
    ELSE Some(proof.val)

RECURSIVE FindFromOffByOne(_, _, _)
FindFromOffByOne(idx, cells, k) ==
    IF k > Len(cells) THEN None
    ELSE IF cells[k].row = (idx + 1) % U16Range THEN ParseScalar(cells[k].proof)
    ELSE FindFromOffByOne(idx, cells, k + 1)

RECURSIVE FindFrom(_, _, _)
\* find_row_by_index's loop from position k of cells
FindFrom(idx, cells, k) ==
    IF k > Len(cells) THEN None
    ELSE IF cells[k].row = idx % U16Range THEN ParseScalar(cells[k].proof)
    ELSE FindFrom(idx, cells, k + 1)

find_row_by_index_skips_first(idx, cells) == FindFrom(idx, cells, 2)
find_row_by_index(idx, cells) == FindFrom(idx, cells, 1)

\* arithmetic of the scalar field
RECURSIVE FPow(_, _)
FPow(a, e) == IF e = 0 THEN 1 ELSE (a * FPow(a, e - 1)) % FieldModulus
FInv(a) == FPow(a, FieldModulus - 2)
FSub(a, b) == (a + FieldModulus - b) % FieldModulus

\* EvaluationDomain::new(n): element i of the domain of size n, a power of two
DomainPoint(n, i) == FPow(FPow(FieldGenerator, (FieldModulus - 1) \div n), i)

RECURSIVE FSum(_, _)
\* the sum of the values of the function f over the set S
FSum(f, S) ==
    IF S = {} THEN 0
    ELSE LET x == CHOOSE y \in S : TRUE IN
         (f[x] + FSum(f, S \ {x})) % FieldModulus

RECURSIVE FProd(_, _)
\* the product of the values of the function f over the set S
FProd(f, S) ==
    IF S = {} THEN 1
    ELSE LET x == CHOOSE y \in S : TRUE IN
         (f[x] * FProd(f, S \ {x})) % FieldModulus

\* the value at domain element i of the polynomial of least degree through
\* the known positions of subset
InterpolateAt(n, subset, i) ==
    LET known == {j \in DOMAIN subset : subset[j].t = "Some"}
        x(j) == DomainPoint(n, j - 1)
        factor(j) ==
            [k \in known \ {j} |->
                (FSub(x(i + 1), x(k)) * FInv(FSub(x(j), x(k)))) % FieldModulus]
        term == [j \in known |->
                    (subset[j].v * FProd(factor(j), known \ {j})) % FieldModulus]
    IN FSum(term, known)

\* the interpolation collaborator: it recovers the full sequence when at
\* least half of the positions are known, and reports an error otherwise
reconstruct_poly(n, subset) ==
    LET known == {j \in DOMAIN subset : subset[j].t = "Some"} IN
    IF Cardinality(known) < n \div 2 THEN Err
    ELSE Ok([i \in 1 .. n |-> InterpolateAt(n, subset, i - 1)])

InitRecon ==
    /\ InitPush
    /\ pc = "rc_pow2"
    /\ block = 0
    /\ row_count = 0
    /\ col_count = 0
    /\ net = <<>>
    /\ row = 0
    /\ col = 0
    /\ fetchLog = <<>>
    /\ base_cells = <<>>
    /\ l0_cols = <<>>
    /\ matrix = None
    /\ latest_cid = None
    /\ rc_row_count \in 0 .. MaxReconRows
    /\ rc_cells \in SeqsUpTo(Cells, MaxReconCells)
    /\ rc_column = <<>>
    /\ rc_subset = <<>>
    /\ rc_i = 0
    /\ poly_calls = <<>>
    /\ rc_outcome = Pending

RcPanics ==
    /\ pc' = "rc_panicked"
    /\ rc_outcome' = Panic

\* assert!(row_count & (row_count - 1) == 0): with overflow checks on,
\* `row_count - 1` panics for row_count = 0; with them off it wraps
RcAssertPowerOfTwo ==
    /\ pc = "rc_pow2"
    /\ \E overflow_checks \in BOOLEAN :
        IF (overflow_checks /\ rc_row_count = 0) \/ ~IsPowerOfTwoAssert(rc_row_count)
          THEN RcPanics
          ELSE pc' = "rc_len" /\ UNCHANGED rc_outcome
    /\ UNCHANGED <<constructVars, pushVars, rc_row_count, rc_cells, rc_column,
                   rc_subset, rc_i, poly_calls>>

\* assert!(cells.len() >= row_count / 2 && cells.len() <= row_count)
RcAssertLen ==
    /\ pc = "rc_len"
    /\ IF LenInRange(Len(rc_cells), rc_row_count)
         THEN pc' = "rc_check" /\ UNCHANGED rc_outcome
         ELSE RcPanics
    /\ UNCHANGED <<constructVars, pushVars, rc_row_count, rc_cells, rc_column,
                   rc_subset, rc_i, poly_calls>>

\* check_cells(cells); EvaluationDomain::new(row_count).unwrap()
RcCheckCells ==
    /\ pc = "rc_check"
    /\ IF check_cells(rc_cells)
         THEN pc' = "rc_fill" /\ UNCHANGED rc_outcome
         ELSE RcPanics
    /\ UNCHANGED <<constructVars, pushVars, rc_row_count, rc_cells, rc_column,
                   rc_subset, rc_i, poly_calls>>

\* one iteration of `for i in 0..row_count { subset.push(find_row_by_index(i, cells)) }`
RcFill ==
    /\ pc = "rc_fill"
    /\ rc_i < rc_row_count
    /\ LET found == find_row_by_index(rc_i, rc_cells) IN
        IF found = Panic
          THEN RcPanics /\ UNCHANGED <<rc_subset, rc_i>>
          ELSE /\ rc_subset' = Append(rc_subset, found)
               /\ rc_i' = rc_i + 1
               /\ UNCHANGED <<pc, rc_outcome>>
    /\ UNCHANGED <<constructVars, pushVars, rc_row_count, rc_cells, rc_column,
                   poly_calls>>

\* reconstruct_poly(eval_domain, subset), whose result is returned
RcReconstructPoly ==
    /\ pc = "rc_fill"
    /\ rc_i = rc_row_count
    /\ poly_calls' = Append(poly_calls, rc_subset)
    /\ rc_outcome' = reconstruct_poly(rc_row_count, rc_subset)
    /\ pc' = "rc_returned"
    /\ UNCHANGED <<constructVars, pushVars, rc_row_count, rc_cells, rc_column,
                   rc_subset, rc_i>>

NextRecon ==
    \/ RcAssertPowerOfTwo
    \/ RcAssertLen
    \/ RcCheckCells
    \/ RcFill
    \/ RcReconstructPoly

SpecRecon == InitRecon /\ [][NextRecon]_vars

(***************************************************************************)
(* What the log of a push_matrix call says about a block.                  *)
(***************************************************************************)
AttemptsIn(log, op, target) ==
    {i \in DOMAIN log : log[i].op = op /\ log[i].target = target}

Attempts(op, target) == AttemptsIn(opLog, op, target)

\* the pin and the insert of the block both succeeded
PublishedIn(log, target) ==
    /\ \E i \in AttemptsIn(log, "pin", target) : log[i].ok
    /\ \E i \in AttemptsIn(log, "insert", target) : log[i].ok

Published(target) == PublishedIn(opLog, target)

\* the pin or the insert of the block failed
Failed(target) ==
    \E i \in DOMAIN opLog : opLog[i].target = target /\ ~opLog[i].ok

NoFailures == \A i \in DOMAIN opLog : opLog[i].ok

\* the blocks a push_matrix call has to publish
AllTargets ==
    {<<"leaf", c, r>> : c \in 0 .. (col_count - 1), r \in 0 .. (row_count - 1)}
      \cup {<<"col", c>> : c \in 0 .. (col_count - 1)}
      \cup {RootTarget}

Constructed == pc # "construct"
Done == pc = "done"

\* the cells of column c of the constructed matrix
ColumnCells(c) == matrix.l1_row.l0_cols[c + 1].base_cells

(***************************************************************************)
(* C1: construct_matrix issues exactly row_count*col_count retrieval calls,*)
(* all with the given block number, one per (row, col) and none twice, in  *)
(* column-major row-minor order: the calls issued so far are always a      *)
(* prefix of that order and, once the matrix is constructed, all of it.    *)
(***************************************************************************)
ColumnMajor(b, rc, cc) ==
    [i \in 1 .. (rc * cc) |-> <<b, (i - 1) % rc, (i - 1) \div rc>>]

C1_ConstructionCoverage ==
    LET want == ColumnMajor(block, row_count, col_count) IN
    /\ Len(fetchLog) <= Len(want)
    /\ \A i \in DOMAIN fetchLog : fetchLog[i] = want[i]
    /\ \A i, j \in DOMAIN fetchLog : i # j => fetchLog[i] # fetchLog[j]
    /\ Constructed =>
        /\ Len(fetchLog) = row_count * col_count
        /\ {fetchLog[i] : i \in DOMAIN fetchLog}
             = Coords(block, row_count, col_count)

C1_Witness ==
    /\ Constructed
    /\ row_count = 2
    /\ col_count = 2
    /\ fetchLog = <<<<block, 0, 0>>, <<block, 1, 0>>, <<block, 0, 1>>,
                    <<block, 1, 1>>>>

(***************************************************************************)
(* C2: push_matrix returns an error if and only if the pin or the insert   *)
(* of the root block fails; whatever leaf or column pins and inserts fail, *)
(* it returns Ok with the root's identifier when the root's own pin and    *)
(* insert succeed.                                                         *)
(***************************************************************************)
C2_ErrorOnlyFromRoot ==
    Done =>
        /\ result.t \in {"Ok", "Err"}
        /\ (result = Err) <=> Failed(RootTarget)
        /\ Published(RootTarget) => result = Ok(coded_matrix.v.cid)

C2_Witness ==
    /\ Done
    /\ result.t = "Ok"
    /\ \E c \in 0 .. (col_count - 1) :
        /\ Failed(<<"col", c>>)
        /\ \E r \in 0 .. (row_count - 1) : Failed(<<"leaf", c, r>>)

(***************************************************************************)
(* C3: the column block push_col encodes links exactly the leaves of that  *)
(* column whose pin and insert both succeeded, each once, in ascending row *)
(* order, with no placeholder for a failed cell.                           *)
(***************************************************************************)
RECURSIVE SurvivingLeafLinks(_, _)
\* the links of the published leaves among the first n cells of column c
SurvivingLeafLinks(c, n) ==
    IF n = 0 THEN <<>>
    ELSE LET rest == SurvivingLeafLinks(c, n - 1) IN
         IF Published(<<"leaf", c, n - 1>>)
           THEN Append(rest, IpldLink(ColumnCells(c)[n].cid))
           ELSE rest

C3_ColumnLinksSurvivors ==
    \A k \in DOMAIN coded_cols :
        /\ coded_cols[k].data
             = IpldList(SurvivingLeafLinks(k - 1, Len(ColumnCells(k - 1))))
        /\ Len(coded_cols[k].data.v)
             = Cardinality({r \in 0 .. (row_count - 1) :
                               Published(<<"leaf", k - 1, r>>)})

C3_Witness ==
    \E k \in DOMAIN coded_cols :
        /\ Len(ColumnCells(k - 1)) = 2
        /\ Failed(<<"leaf", k - 1, 0>>)
        /\ Published(<<"leaf", k - 1, 1>>)
        /\ coded_cols[k].data.v = <<IpldLink(ColumnCells(k - 1)[2].cid)>>

(***************************************************************************)
(* C4: the root's `columns` list links exactly the columns whose own pin   *)
(* and insert succeeded, in ascending column order with no placeholder; a  *)
(* column is dropped if and only if its own pin or insert failed, so a     *)
(* column all of whose cells failed is published as an empty list and      *)
(* linked from the root.                                                   *)
(***************************************************************************)
RECURSIVE SurvivingColLinks(_)
\* the links of the columns among the first n whose own pin and insert did
\* not fail
SurvivingColLinks(n) ==
    IF n = 0 THEN <<>>
    ELSE LET rest == SurvivingColLinks(n - 1) IN
         IF ~Failed(<<"col", n - 1>>)
           THEN Append(rest, IpldLink(coded_cols[n].cid))
           ELSE rest

C4_RootLinksSurvivingColumns ==
    /\ \A c \in 0 .. (push_col_idx - 1) :
           Published(<<"col", c>>) <=> ~Failed(<<"col", c>>)
    /\ coded_matrix # None =>
        /\ Len(coded_cols) = col_count
        /\ coded_matrix.v.data.v.columns = IpldList(SurvivingColLinks(col_count))

C4_Witness ==
    /\ Done
    /\ row_count = 2
    /\ col_count = 2
    /\ Failed(<<"col", 0>>)
    /\ Failed(<<"leaf", 1, 0>>)
    /\ Failed(<<"leaf", 1, 1>>)
    /\ coded_cols[2].data = IpldList(<<>>)
    /\ coded_matrix.v.data.v.columns
         = IpldList(<<IpldLink(CidOf(IpldList(<<>>)))>>)

(***************************************************************************)
(* C5 as stated: publishing a 2x2 matrix with no publish failures into an  *)
(* initially empty store leaves exactly 4 leaf blocks, 2 column blocks and *)
(* 1 root block in the store, for every choice of the four payloads.       *)
(***************************************************************************)
LeafBlocks == {b \in store : b.data.t = "Bytes"}
ColBlocks == {b \in store : b.data.t = "List"}
RootBlocks == {b \in store : b.data.t = "StringMap"}

\* the number of successful inserts of blocks of a level
Inserted(level) ==
    Cardinality({i \in DOMAIN opLog : /\ opLog[i].op = "insert"
                                      /\ opLog[i].target[1] = level
                                      /\ opLog[i].ok})

ShapeCase == Done /\ NoFailures /\ row_count = 2 /\ col_count = 2

C5_Original_FourTwoOne ==
    ShapeCase =>
        /\ Cardinality(LeafBlocks) = 4
        /\ Cardinality(ColBlocks) = 2
        /\ Cardinality(RootBlocks) = 1

(***************************************************************************)
(* C5 amended: publishing a 2x2 matrix with no publish failures into an    *)
(* initially empty store performs exactly 4 leaf inserts, 2 column inserts *)
(* and 1 root insert, and leaves in the store one leaf block per distinct  *)
(* payload, one column block per distinct column and 1 root block: 4, 2    *)
(* and 1 blocks exactly when the four payloads are pairwise distinct.      *)
(***************************************************************************)
DistinctPayloads == {net[x] : x \in DOMAIN net}
DistinctColumns ==
    {[r \in 0 .. (row_count - 1) |-> net[<<block, r, c>>]] :
        c \in 0 .. (col_count - 1)}

C5_ShapeByContent ==
    ShapeCase =>
        /\ Inserted("leaf") = 4
        /\ Inserted("col") = 2
        /\ Inserted("root") = 1
        /\ Cardinality(LeafBlocks) = Cardinality(DistinctPayloads)
        /\ Cardinality(ColBlocks) = Cardinality(DistinctColumns)
        /\ Cardinality(RootBlocks) = 1
        /\ Cardinality(store) = Cardinality(LeafBlocks) + Cardinality(ColBlocks) + 1
        /\ Cardinality(DistinctPayloads) = 4 <=>
             (Cardinality(LeafBlocks) = 4 /\ Cardinality(ColBlocks) = 2)

C5_Witness ==
    /\ ShapeCase
    /\ Cardinality(DistinctPayloads) = 4
    /\ Cardinality(LeafBlocks) = 4
    /\ Cardinality(ColBlocks) = 2
    /\ Cardinality(RootBlocks) = 1

(***************************************************************************)
(* C6: the root block is a map with exactly the keys `columns`, `block`    *)
(* and `prev`; `prev` is the explicit null when no previous root is        *)
(* supplied and a link to the supplied identifier otherwise; `block` is    *)
(* the non-negative block number given to construct_matrix.                *)
(***************************************************************************)
C6_RootShape ==
    coded_matrix # None =>
        LET root == coded_matrix.v.data IN
        /\ root.t = "StringMap"
        /\ DOMAIN root.v = {"columns", "block", "prev"}
        /\ root.v.columns.t = "List"
        /\ latest_cid = None => root.v.prev = IpldNull
        /\ latest_cid # None => root.v.prev = IpldLink(latest_cid.v)
        /\ root.v.block = IpldInteger(block)
        /\ root.v.block.v >= 0

C6_Witness ==
    /\ Done
    /\ result.t = "Ok"
    /\ latest_cid = Some(PrevRoot)
    /\ block = 2^BlockBits - 1
    /\ result.v.digest.v.prev = IpldLink(PrevRoot)
    /\ result.v.digest.v.block = IpldInteger(2^BlockBits - 1)

(***************************************************************************)
(* C7 as stated: publishing identical matrix content twice with the same   *)
(* previous root yields identical identifiers at every level (each leaf,   *)
(* each column block, the root), whatever the first publish left behind.   *)
(***************************************************************************)
\* the identifiers a call's log and encoded blocks show, level by level
LeafIds(log) ==
    {<<log[i].target, log[i].cid>> : i \in {j \in DOMAIN log : log[j].target[1] = "leaf"}}
ColIds(cols) == [k \in DOMAIN cols |-> cols[k].cid]

PublishedTwice == Done /\ first # None

SameIdsAtEveryLevel ==
    /\ LeafIds(opLog) = LeafIds(first.v.opLog)
    /\ ColIds(coded_cols) = ColIds(first.v.coded_cols)
    /\ coded_matrix.v.cid = first.v.coded_matrix.v.cid
    /\ (result.t = "Ok" /\ first.v.result.t = "Ok") => result = first.v.result

C7_Original_AlwaysSameIds == PublishedTwice => SameIdsAtEveryLevel

(***************************************************************************)
(* C7 amended: publishing identical matrix content twice with the same     *)
(* previous root yields identical identifiers at every level, whatever the *)
(* first publish left in the store and the pin scope, provided the same    *)
(* cells and the same columns fail to publish in both calls (in particular *)
(* when none fails); the leaf identifiers are identical in every case.     *)
(***************************************************************************)
SameSurvivors ==
    \A t \in AllTargets \ {RootTarget} :
        PublishedIn(first.v.opLog, t) <=> PublishedIn(opLog, t)

C7_SameIdsForSameSurvivors ==
    PublishedTwice =>
        /\ LeafIds(opLog) = LeafIds(first.v.opLog)
        /\ SameSurvivors => SameIdsAtEveryLevel

C7_Witness ==
    /\ PublishedTwice
    /\ SameSurvivors
    /\ SameIdsAtEveryLevel
    /\ result.t = "Ok"
    /\ first.v.result.t = "Ok"
    /\ opLog # first.v.opLog
    /\ \E t \in AllTargets : t[1] = "leaf" /\ Failed(t)
    /\ \E t \in AllTargets : t[1] = "leaf" /\ Published(t)

(***************************************************************************)
(* C8: when no pin and no insert fails, position corresponds to coordinate *)
(* end to end: the root's `columns` has col_count links, the link at       *)
(* position c is a column block with row_count links, and its link at      *)
(* position r is the identifier of the leaf encoding the payload fetched   *)
(* for (block, r, c).                                                      *)
(***************************************************************************)
C8_PositionIsCoordinate ==
    (Done /\ NoFailures) =>
        LET columns == result.v.digest.v.columns.v IN
        /\ Len(columns) = col_count
        /\ \A c \in 0 .. (col_count - 1) :
            /\ columns[c + 1].t = "Link"
            /\ columns[c + 1].v.digest.t = "List"
            /\ Len(columns[c + 1].v.digest.v) = row_count
            /\ \A r \in 0 .. (row_count - 1) :
                 columns[c + 1].v.digest.v[r + 1]
                   = IpldLink(CidOf(IpldBytes(
                         get_kate_query_proof_by_cell(block, r, c))))

C8_Witness ==
    /\ Done
    /\ NoFailures
    /\ row_count = 2
    /\ col_count = 2
    /\ net[<<block, 0, 0>>] # net[<<block, 1, 0>>]
    /\ net[<<block, 0, 0>>] # net[<<block, 0, 1>>]
    /\ result.v.digest.v.columns.v[2].v.digest.v[1]
         = IpldLink(CidOf(IpldBytes(net[<<block, 0, 1>>])))

(***************************************************************************)
(* C9: a failed leaf or column publish does not abort sibling work: in     *)
(* every push_matrix call, whatever fails, a pin is attempted for every    *)
(* leaf of every column, for every column block and for the root block,    *)
(* each exactly once.                                                      *)
(***************************************************************************)
C9_EveryBlockPinnedOnce ==
    Done =>
        /\ \A t \in AllTargets : Cardinality(Attempts("pin", t)) = 1
        /\ \A i \in DOMAIN opLog : opLog[i].target \in AllTargets

C9_Witness ==
    /\ Done
    /\ row_count = 2
    /\ col_count = 2
    /\ \E i \in Attempts("pin", <<"leaf", 0, 0>>) : ~opLog[i].ok
    /\ \E i \in Attempts("pin", <<"col", 0>>) : ~opLog[i].ok
    /\ Cardinality(Attempts("pin", <<"leaf", 0, 1>>)) = 1
    /\ Cardinality(Attempts("pin", <<"leaf", 1, 1>>)) = 1
    /\ Cardinality(Attempts("pin", RootTarget)) = 1

(***************************************************************************)
(* C10: reconstruct_column fails fast whenever the number of cells is less *)
(* than row_count/2 or greater than row_count: it never returns a          *)
(* reconstructed sequence and never invokes the interpolation collaborator.*)
(***************************************************************************)
\* row_count/2 read as the code's integer division
LenOutOfRange ==
    \/ Len(rc_cells) < rc_row_count \div 2
    \/ Len(rc_cells) > rc_row_count

\* row_count/2 read as the exact half
LenBelowExactHalf == 2 * Len(rc_cells) < rc_row_count

C10_FailFastOnCellCount ==
    /\ LenOutOfRange =>
        /\ pc \in {"rc_pow2", "rc_len", "rc_panicked"}
        /\ rc_subset = <<>>
    /\ (LenOutOfRange \/ LenBelowExactHalf) =>
        /\ pc \in {"rc_pow2", "rc_len", "rc_check", "rc_panicked"}
        /\ poly_calls = <<>>
        /\ rc_outcome \in {Pending, Panic}

C10_Witness ==
    /\ pc = "rc_panicked"
    /\ rc_outcome = Panic
    /\ rc_row_count = 1
    /\ Len(rc_cells) = 2
    /\ check_cells(rc_cells)
    /\ rc_cells[1].row = 0
    /\ rc_cells[1].proof = WellFormedProof

(***************************************************************************)
(* What a reconstruct_column call was given and how it ended.              *)
(***************************************************************************)
IsPowerOfTwo(n) == \E k \in 0 .. n : n = 2^k

WellFormed(proof) == proof.len = 32 /\ proof.val < FieldModulus
AllWellFormed == \A k \in DOMAIN rc_cells : WellFormed(rc_cells[k].proof)
OneColumn == \A j, k \in DOMAIN rc_cells : rc_cells[j].col = rc_cells[k].col
DistinctRowsInRange ==
    /\ \A k \in DOMAIN rc_cells : rc_cells[k].row < rc_row_count
    /\ \A j, k \in DOMAIN rc_cells : j # k => rc_cells[j].row # rc_cells[k].row

RcReturned == pc = "rc_returned"
RcPanicked == pc = "rc_panicked"

\* the call returned a sequence of row_count field elements
RcSucceeded ==
    /\ RcReturned
    /\ rc_outcome.t = "Ok"
    /\ Len(rc_outcome.v) = rc_row_count
    /\ \A i \in DOMAIN rc_outcome.v : rc_outcome.v[i] \in 0 .. (FieldModulus - 1)

HalfOrAllCells ==
    /\ IsPowerOfTwo(rc_row_count)
    /\ Len(rc_cells) \in {rc_row_count \div 2, rc_row_count}
    /\ OneColumn
    /\ AllWellFormed

(***************************************************************************)
(* C11 as stated: for a power-of-two row_count, reconstruct_column         *)
(* succeeds when given exactly row_count/2 cells and when given row_count  *)
(* cells, all of one column and with well-formed payloads.                 *)
(***************************************************************************)
C11_Original_HalfOrAllSucceeds ==
    HalfOrAllCells => (~RcPanicked /\ (RcReturned => RcSucceeded))

(***************************************************************************)
(* C11 amended: for a power-of-two row_count, reconstruct_column succeeds  *)
(* (returns a sequence of row_count field elements) when given exactly     *)
(* row_count/2 cells and when given row_count cells, provided the list is  *)
(* not empty and the cells are of one column, with well-formed payloads    *)
(* and with pairwise distinct rows below row_count.                        *)
(***************************************************************************)
C11_HalfOrAllDistinctRowsSucceeds ==
    (HalfOrAllCells /\ Len(rc_cells) > 0 /\ DistinctRowsInRange) =>
        /\ ~RcPanicked
        /\ RcReturned => RcSucceeded
        /\ ~RcReturned => ENABLED NextRecon

C11_Witness ==
    /\ RcSucceeded
    /\ rc_row_count = 4
    /\ Len(rc_cells) = 2
    /\ HalfOrAllCells
    /\ DistinctRowsInRange
    /\ rc_cells[1].proof # rc_cells[2].proof

MixedColumns == \E j, k \in DOMAIN rc_cells : rc_cells[j].col # rc_cells[k].col
NoResult == rc_outcome \in {Pending, Panic}
InterpolationNotInvoked == poly_calls = <<>>
BeforeFill == pc \in {"rc_pow2", "rc_len", "rc_check", "rc_panicked"}

(***************************************************************************)
(* C12: reconstruct_column fails fast when any two cells report different  *)
(* column indices, and when the cell list is empty: the call panics before *)
(* any cell is looked up, no result is produced and the interpolation is   *)
(* not invoked.                                                            *)
(***************************************************************************)
C12_FailFastOnColumns ==
    (rc_cells = <<>> \/ MixedColumns) =>
        /\ BeforeFill
        /\ rc_subset = <<>>
        /\ NoResult
        /\ InterpolationNotInvoked
        /\ ~RcPanicked => ENABLED NextRecon

\* two cells of different columns passed the two assertions and were
\* rejected by check_cells
C12_Witness ==
    /\ RcPanicked
    /\ MixedColumns
    /\ rc_row_count = 2
    /\ Len(rc_cells) = 2
    /\ AllWellFormed
    /\ DistinctRowsInRange

(***************************************************************************)
(* C13: reconstruct_column fails fast for every row_count that is not a    *)
(* power of two (3, 6, 10, and also 0), whatever the cells are: it never   *)
(* looks a cell up, never invokes the interpolation and never returns a    *)
(* result.  A row_count other than 0 is rejected by the first assertion;   *)
(* for 0 the call panics at the subtraction, at the length assertion or    *)
(* in check_cells, depending on the build and on the cells.                *)
(***************************************************************************)
C13_FailFastOnNonPowerOfTwo ==
    ~IsPowerOfTwo(rc_row_count) =>
        /\ BeforeFill
        /\ rc_row_count # 0 => pc \in {"rc_pow2", "rc_panicked"}
        /\ rc_subset = <<>>
        /\ NoResult
        /\ InterpolationNotInvoked
        /\ ~RcPanicked => ENABLED NextRecon

\* cells that every other check accepts, rejected for the row_count alone
C13_Witness ==
    /\ RcPanicked
    /\ rc_row_count = 3
    /\ Len(rc_cells) = 2
    /\ OneColumn
    /\ AllWellFormed
    /\ DistinctRowsInRange

\* what position i (from 0) of the sequence should hold: the decoded element
\* of the first input cell with row i, or the missing marker
FirstCellOfRow(i) ==
    CHOOSE k \in DOMAIN rc_cells :
        /\ rc_cells[k].row = i
        /\ \A j \in 1 .. (k - 1) : rc_cells[j].row # i
ExpectedAt(i) ==
    IF \E k \in DOMAIN rc_cells : rc_cells[k].row = i
      THEN Some(rc_cells[FirstCellOfRow(i)].proof.val)
      ELSE None

(***************************************************************************)
(* C14: when the precondition checks pass, the sequence handed to the      *)
(* interpolation has length row_count, and its position i holds the        *)
(* decoded element of the input cell with row i if there is one (the first *)
(* such cell of the list), and the missing marker otherwise.  The sequence *)
(* is built in order of position and handed over at most once.             *)
(***************************************************************************)
C14_SubsetByRowPosition ==
    /\ Len(poly_calls) <= 1
    /\ \A c \in DOMAIN poly_calls :
        /\ Len(poly_calls[c]) = rc_row_count
        /\ \A i \in 0 .. (rc_row_count - 1) : poly_calls[c][i + 1] = ExpectedAt(i)
    /\ \A i \in 0 .. (Len(rc_subset) - 1) : rc_subset[i + 1] = ExpectedAt(i)

\* rows 2 and 0 supplied out of order for a column of four
C14_Witness ==
    /\ RcReturned
    /\ rc_row_count = 4
    /\ Len(rc_cells) = 2
    /\ rc_cells[1].row = 2
    /\ rc_cells[2].row = 0
    /\ poly_calls = << <<Some(rc_cells[2].proof.val), None,
                         Some(rc_cells[1].proof.val), None>> >>
    /\ rc_cells[1].proof # rc_cells[2].proof

\* the cells the loop looks up: the first cell of the list for each row
\* below row_count
LookedUp(k) ==
    /\ rc_cells[k].row < rc_row_count
    /\ \A j \in 1 .. (k - 1) : rc_cells[j].row # rc_cells[k].row
MalformedCell == \E k \in DOMAIN rc_cells : ~WellFormed(rc_cells[k].proof)
MalformedLookedUp ==
    \E k \in DOMAIN rc_cells : LookedUp(k) /\ ~WellFormed(rc_cells[k].proof)
ChecksPass ==
    /\ IsPowerOfTwo(rc_row_count)
    /\ Len(rc_cells) >= rc_row_count \div 2
    /\ Len(rc_cells) <= rc_row_count
    /\ Len(rc_cells) > 0
    /\ OneColumn

(***************************************************************************)
(* C15 as stated: a malformed payload in any supplied cell is a propagated *)
(* error returned to the caller; it is never silently skipped and never    *)
(* lets the call return a reconstructed sequence.                          *)
(***************************************************************************)
C15_Original_MalformedIsReturnedError ==
    (ChecksPass /\ MalformedCell) =>
        /\ rc_outcome.t # "Ok"
        /\ (RcReturned \/ RcPanicked) => rc_outcome = Err

(***************************************************************************)
(* C15 amended: in reconstruct_column the payload of every cell that is    *)
(* looked up (the first cell of the list for each row below row_count)     *)
(* must parse as a canonical fixed-width field-element encoding: a         *)
(* malformed payload in such a cell makes the call panic, so the call      *)
(* returns neither an error nor a sequence and the interpolation is not    *)
(* invoked.  A cell that is never looked up (a later cell of a repeated    *)
(* row, or a row at or above row_count) is not parsed: when the checks     *)
(* pass and every looked-up payload is well-formed the call does not       *)
(* panic.                                                                  *)
(***************************************************************************)
C15_MalformedLookedUpPanics ==
    /\ MalformedLookedUp =>
        /\ ~RcReturned
        /\ NoResult
        /\ InterpolationNotInvoked
        /\ ~RcPanicked => ENABLED NextRecon
    /\ (ChecksPass /\ ~MalformedLookedUp) =>
        /\ ~RcPanicked
        /\ ~RcReturned => ENABLED NextRecon

\* row 0 parsed, row 1 is a payload of the wrong length: panic inside the loop
C15_Witness ==
    /\ RcPanicked
    /\ rc_row_count = 2
    /\ ChecksPass
    /\ Len(rc_cells) = 2
    /\ rc_cells[1].row = 0
    /\ WellFormed(rc_cells[1].proof)
    /\ rc_cells[2].row = 1
    /\ rc_cells[2].proof = ShortProof
    /\ rc_subset = <<Some(rc_cells[1].proof.val)>>

(***************************************************************************)
(* The round trip: a column of RoundTripRows field elements is encoded     *)
(* into one cell per row, some of the cells are removed, and               *)
(* reconstruct_column is called with the remaining ones.  The column is    *)
(* the evaluation over the domain of a polynomial of degree below          *)
(* RoundTripRows / 2 (an erasure-coded column), or such a column with its  *)
(* first element changed (eight values that are not erasure-coded).        *)
(***************************************************************************)
RoundTripRows == 2^3
MaxCoef == 1

Coefficients == [0 .. (RoundTripRows \div 2 - 1) -> 0 .. MaxCoef]

\* the evaluations of the polynomial with the given coefficients
Codeword(coefs) ==
    [i \in 1 .. RoundTripRows |->
        FSum([j \in DOMAIN coefs |->
                 (coefs[j] * FPow(DomainPoint(RoundTripRows, i - 1), j)) % FieldModulus],
             DOMAIN coefs)]

Corrupted(column) ==
    [column EXCEPT ![1] = (column[1] + 1) % FieldModulus]

\* the 32-byte encoding of a field element
ToBytes(v) == [len |-> 32, val |-> v]

RECURSIVE EncodeCells(_, _, _)
\* the cells of the kept rows of the column, in row order from row i on
EncodeCells(column, kept, i) ==
    IF i >= Len(column) THEN <<>>
    ELSE IF i \in kept
      THEN <<[row |-> i, col |-> 0, proof |-> ToBytes(column[i + 1])]>>
               \o EncodeCells(column, kept, i + 1)
      ELSE EncodeCells(column, kept, i + 1)

InitRoundTrip ==
    /\ InitPush
    /\ pc = "rc_pow2"
    /\ block = 0
    /\ row_count = 0
    /\ col_count = 0
    /\ net = <<>>
    /\ row = 0
    /\ col = 0
    /\ fetchLog = <<>>
    /\ base_cells = <<>>
    /\ l0_cols = <<>>
    /\ matrix = None
    /\ latest_cid = None
    /\ rc_row_count = RoundTripRows
    /\ \E coefs \in Coefficients, corrupt \in BOOLEAN :
        rc_column = IF corrupt THEN Corrupted(Codeword(coefs)) ELSE Codeword(coefs)
    /\ \E kept \in SUBSET (0 .. (RoundTripRows - 1)) :
        rc_cells = EncodeCells(rc_column, kept, 0)
    /\ rc_subset = <<>>
    /\ rc_i = 0
    /\ poly_calls = <<>>
    /\ rc_outcome = Pending

SpecRoundTrip == InitRoundTrip /\ [][NextRecon]_vars

ErasureCoded(column) == \E coefs \in Coefficients : column = Codeword(coefs)
EnoughCells == Len(rc_cells) >= rc_row_count \div 2

(***************************************************************************)
(* C16 as stated: for a column of 8 known field elements encoded into 8    *)
(* cells, reconstruct_column(8, remaining) returns the original 8 values   *)
(* in row order for every subset of the cells of size at or above 4.       *)
(***************************************************************************)
C16_Original_RoundTripOfAnyColumn ==
    (EnoughCells /\ RcReturned) => rc_outcome = Ok(rc_column)

(***************************************************************************)
(* C16 amended: for an erasure-coded column of row_count = 8 field         *)
(* elements (the evaluations over the domain of a polynomial of degree     *)
(* below 4) encoded into 8 cells, removing any 4 cells and calling         *)
(* reconstruct_column(8, remaining) returns the original 8 values in row   *)
(* order, for every choice of the removed 4; the result is the same for    *)
(* every subset of the cells of size at or above 4.                        *)
(***************************************************************************)
C16_RoundTripOfErasureCodedColumn ==
    EnoughCells =>
        \/ /\ ~RcPanicked
           /\ RcReturned => rc_outcome = Ok(rc_column)
        \/ ~ErasureCoded(rc_column)

\* rows 0, 2, 5 and 7 removed from a column that is not constant
C16_Witness ==
    /\ RcReturned
    /\ ErasureCoded(rc_column)
    /\ {rc_cells[k].row : k \in DOMAIN rc_cells} = {1, 3, 4, 6}
    /\ rc_column[1] # rc_column[2]
    /\ rc_outcome = Ok(rc_column)

\* the temp_pin call of a target failed
PinFailed(target) == \E i \in Attempts("pin", target) : ~opLog[i].ok

(***************************************************************************)
(* C17: at every level (leaf, column block, root) the block's identifier   *)
(* is pinned before the block is inserted, and the insert is not attempted *)
(* when the pin fails: every insert follows at once a successful pin of    *)
(* the same block, and a failed pin is followed by the pin of another      *)
(* block, not by an insert.  Hence at every point of a push_matrix call    *)
(* every block the call has inserted into the store has its identifier     *)
(* pinned.                                                                 *)
(***************************************************************************)
C17_PinnedBeforeInserted ==
    /\ \A i \in DOMAIN opLog :
        opLog[i].op = "insert" =>
            /\ i > 1
            /\ opLog[i - 1] = LogEntry("pin", opLog[i].target, opLog[i].cid, TRUE)
            /\ opLog[i].cid \in pins
            /\ opLog[i].ok => \E b \in store : b.cid = opLog[i].cid
    /\ \A i \in 1 .. (Len(opLog) - 1) :
        (opLog[i].op = "pin" /\ ~opLog[i].ok) =>
            /\ opLog[i + 1].op = "pin"
            /\ opLog[i + 1].target # opLog[i].target
    /\ \A b \in store : b.cid \in pins

\* a leaf's pin failed and its insert was skipped, while the blocks above
\* it were pinned and inserted
C17_Witness ==
    /\ Done
    /\ result.t = "Ok"
    /\ PinFailed(<<"leaf", 0, 0>>)
    /\ Published(<<"leaf", 0, 1>>)
    /\ Published(<<"col", 0>>)
    /\ Cardinality(store) >= 3

\* the place of a block in the bottom-up, column-by-column order: the leaves
\* of column c in row order, then the column block of c, and the root last
PublishRank(target) ==
    IF target[1] = "leaf" THEN target[2] * (row_count + 1) + target[3]
    ELSE IF target[1] = "col" THEN target[2] * (row_count + 1) + row_count
    ELSE col_count * (row_count + 1)

\* the target is a block of the matrix being published
IsTarget(target) ==
    \/ target = RootTarget
    \/ /\ target[1] = "col"
       /\ Len(target) = 2
       /\ target[2] \in 0 .. (col_count - 1)
    \/ /\ target[1] = "leaf"
       /\ Len(target) = 3
       /\ target[2] \in 0 .. (col_count - 1)
       /\ target[3] \in 0 .. (row_count - 1)

(***************************************************************************)
(* C18: publishing is strictly sequential and bottom-up.  The blocks are   *)
(* attempted one after the other in the order leaves of column 0 in row    *)
(* order, column block 0, leaves of column 1, column block 1, ..., root,   *)
(* none of them left out and none taken twice: the first operation is the  *)
(* pin of the first block of that order, every later pin is of the block   *)
(* next to the one attempted last, and every insert is of the block pinned *)
(* just before.  Hence a column block is pinned and inserted only after    *)
(* push_cell has been attempted for every leaf of that column, no          *)
(* operation of column c+1 starts before the column block of column c has  *)
(* been attempted, and the root block is pinned and inserted only after    *)
(* every column has been attempted.                                        *)
(***************************************************************************)
C18_SequentialBottomUp ==
    \A i \in DOMAIN opLog :
        /\ IsTarget(opLog[i].target)
        /\ IF opLog[i].op = "pin"
             THEN PublishRank(opLog[i].target)
                    = IF i = 1 THEN 0 ELSE PublishRank(opLog[i - 1].target) + 1
             ELSE /\ i > 1
                  /\ opLog[i - 1].op = "pin"
                  /\ opLog[i - 1].target = opLog[i].target

\* a 2x2 matrix published to the end although a leaf and a column block of
\* column 0 failed
C18_Witness ==
    /\ Done
    /\ row_count = 2
    /\ col_count = 2
    /\ Failed(<<"leaf", 0, 1>>)
    /\ Failed(<<"col", 0>>)
    /\ Published(<<"col", 1>>)
    /\ Attempts("pin", RootTarget) # {}

\* a block of the given level with this identifier was inserted with
\* success before position i of the log, and is in the store
InsertedBefore(cid, level, i) ==
    /\ \E k \in 1 .. (i - 1) :
        /\ opLog[k].op = "insert"
        /\ opLog[k].ok
        /\ opLog[k].cid = cid
        /\ opLog[k].target[1] = level
    /\ \E b \in store : b.cid = cid

\* the same, for a leaf of column c
LeafInsertedBefore(cid, c, i) ==
    \E k \in 1 .. (i - 1) :
        /\ opLog[k].target[1] = "leaf"
        /\ opLog[k] = LogEntry("insert", <<"leaf", c, opLog[k].target[3]>>, cid, TRUE)

(***************************************************************************)
(* C19: no dangling column or leaf links: every element of a column block  *)
(* that push_col inserts is a link to a leaf block (of that column) whose  *)
(* insert into the store succeeded earlier in the same call, and every     *)
(* element of the `columns` list of a root that push_matrix returns is a   *)
(* link to a column block whose insert succeeded earlier in the same call. *)
(***************************************************************************)
C19_NoDanglingLinks ==
    /\ \A i \in DOMAIN opLog :
        (opLog[i].op = "insert" /\ opLog[i].ok /\ opLog[i].target[1] = "col") =>
            LET c == opLog[i].target[2]
                links == coded_cols[c + 1].data.v
            IN /\ coded_cols[c + 1].cid = opLog[i].cid
               /\ \A e \in DOMAIN links :
                   /\ links[e].t = "Link"
                   /\ InsertedBefore(links[e].v, "leaf", i)
                   /\ LeafInsertedBefore(links[e].v, c, i)
    /\ result.t = "Ok" =>
        LET links == coded_matrix.v.data.v.columns.v IN
        /\ result.v = coded_matrix.v.cid
        /\ \A e \in DOMAIN links :
            /\ links[e].t = "Link"
            /\ InsertedBefore(links[e].v, "col", Len(opLog))

\* a returned root linking one column block, which links one leaf, after a
\* failed leaf and a failed column block
C19_Witness ==
    /\ Done
    /\ result.t = "Ok"
    /\ row_count = 2
    /\ col_count = 2
    /\ Failed(<<"col", 0>>)
    /\ Failed(<<"leaf", 1, 0>>)
    /\ Published(<<"leaf", 1, 1>>)
    /\ Published(<<"col", 1>>)
    /\ Len(coded_matrix.v.data.v.columns.v) = 1
    /\ Len(coded_cols[2].data.v) = 1

\* every block inserted with success is in the store, and every identifier
\* pinned with success is in the pin scope
NothingRolledBack ==
    \A i \in DOMAIN opLog :
        opLog[i].ok =>
            IF opLog[i].op = "insert"
              THEN \E b \in store : b.cid = opLog[i].cid
              ELSE opLog[i].cid \in pins

(***************************************************************************)
(* C20: push_matrix never removes a block from the store and never         *)
(* releases a pin: no step of a call shrinks the store or the pin set,     *)
(* also when a column publish fails or the call returns an error, so that  *)
(* everything inserted or pinned with success stays in the store and       *)
(* pinned (no rollback).                                                   *)
(***************************************************************************)
C20_StoreAndPinsOnlyGrow ==
    /\ [][store \subseteq store' /\ pins \subseteq pins']_vars
    /\ []NothingRolledBack

\* the call returned an error after the root's insert failed, and the leaf
\* of the failed column 0 and the pinned root are still there
C20_Witness ==
    /\ Done
    /\ result = Err
    /\ Published(<<"leaf", 0, 0>>)
    /\ Failed(<<"col", 0>>)
    /\ \E i \in Attempts("insert", RootTarget) : ~opLog[i].ok
    /\ ColumnCells(0)[1] \in store
    /\ ColumnCells(0)[1].cid \in pins
    /\ coded_matrix.v.cid \in pins

=============================================================================
